---- MODULE Spec2Model ----
(***************************************************************************)
(* WIP calculation cascade of app/services/wip_calculations.py.            *)
(*                                                                         *)
(* Values.  A Python value is a record [tag, v]: tag "none" is None, tag   *)
(* "dec" is a Decimal and tag "err" stands for an expression that raised   *)
(* (TypeError on None, DivisionByZero / InvalidOperation on a zero         *)
(* divisor).  A Decimal is carried as its integer number of hundredths:    *)
(* the money columns are Numeric(15,2) and the percentages are quantized   *)
(* to Decimal("0.01"), so 30.00 is 3000 and 0.32 is 32.  Sums and          *)
(* differences stay on that grid; the two quotients of the code are        *)
(* quantized to it at once.  The quotient itself is taken exactly: the     *)
(* decimal context rounds it to 28 significant digits first, which cannot  *)
(* move a quotient of two 15-digit amounts across a hundredth or onto a    *)
(* tie.                                                                    *)
(***************************************************************************)
EXTENDS Integers, FiniteSets, Sequences, TLC

VARIABLES input_data, result, pc

(* Concurrent callers of calculate_all_fields: calls[i] is caller i's       *)
(* invocation in flight (its argument, its local result mapping and the     *)
(* calculation group it runs next), history the invocations that returned.  *)
VARIABLES calls, history

(* WIPService._detect_significant_changes: the two snapshots compared and   *)
(* the evaluations made of them, each a pair <<threshold, changes>>.        *)
VARIABLES current, prior, detected

(* The wip_snapshots table and its autoincrement key, the last create or    *)
(* update request served with the number of requests so far, and the last   *)
(* response of the compare endpoint.                                        *)
VARIABLES snapshots, next_id, last, requests, comparison

(* The projects and cell_explanations tables with their keys, the create    *)
(* requests that passed the endpoint's checks and have not yet committed,   *)
(* and the last response of GET /wip/latest.                                *)
VARIABLES projects, next_project_id, explanations, next_explanation_id, pending, latest

calc_vars == <<input_data, result, pc>>
call_vars == <<calls, history>>
detect_vars == <<current, prior, detected>>
store_vars == <<snapshots, next_id, last, requests, comparison>>
app_vars == <<projects, next_project_id, explanations, next_explanation_id, pending, latest>>

vars == <<calc_vars, call_vars, detect_vars, store_vars, app_vars>>

----------------------------------------------------------------------------
(* Bounds of the checked input space (hundredths of the currency unit).    *)

MaxAmt == 2
MaxPrior == 1
MaxRoundCost == 3
MaxRoundEtc == 31
MaxRoundContract == 32
MaxCallAmt == 2
MaxThreshold == 9
MaxRequests == 3
MaxStoreAmt == 2
MaxTinyCost == 11

----------------------------------------------------------------------------
(* Python values                                                           *)

None == [tag |-> "none", v |-> 0]
Err == [tag |-> "err", v |-> 0]
Dec(x) == [tag |-> "dec", v |-> x]

IsDec(x) == x.tag = "dec"

Abs(n) == IF n < 0 THEN -n ELSE n

(* n / d to the nearest integer, ties to the even one (decimal's default   *)
(* context rounding, ROUND_HALF_EVEN, which quantize() uses); d # 0.        *)
(* QuantizeTruncate drops the fraction instead (ROUND_DOWN).                *)
QuantizeTruncate(n, d) ==
    LET nn == IF d < 0 THEN -n ELSE n
        dd == Abs(d)
    IN  IF nn >= 0 THEN nn \div dd ELSE -((-nn) \div dd)

Quantize(n, d) ==
    LET nn == IF d < 0 THEN -n ELSE n
        dd == Abs(d)
        q == nn \div dd
        r == nn % dd
    IN  IF 2 * r < dd THEN q
        ELSE IF 2 * r > dd THEN q + 1
        ELSE IF q % 2 = 0 THEN q ELSE q + 1

(* a + b and a - b on Decimals; a None operand raises TypeError.            *)
PyAdd(a, b) == IF IsDec(a) /\ IsDec(b) THEN Dec(a.v + b.v) ELSE Err
PySub(a, b) == IF IsDec(a) /\ IsDec(b) THEN Dec(a.v - b.v) ELSE Err

(* (a / b * 100).quantize(Decimal("0.01")): hundredths of a percent.        *)
PyPercentOf(a, b) ==
    IF IsDec(a) /\ IsDec(b) /\ b.v # 0
    THEN Dec(Quantize(10000 * a.v, b.v))
    ELSE Err

(* (a * p / 100).quantize(Decimal("0.01")), p a percentage.                 *)
PyTimesPercent(a, p) ==
    IF IsDec(a) /\ IsDec(p) THEN Dec(Quantize(a.v * p.v, 10000)) ELSE Err

(* a >= b in place of a > b.                                                *)
PyGe(a, b) ==
    IF IsDec(a) /\ IsDec(b) THEN (IF a.v >= b.v THEN "T" ELSE "F") ELSE "E"

(* a > b on Decimals: "T", "F", or "E" when an operand is None (TypeError). *)
PyGt(a, b) ==
    IF IsDec(a) /\ IsDec(b) THEN (IF a.v > b.v THEN "T" ELSE "F") ELSE "E"

(* `x if <comparison> else None`, the comparison possibly raising.          *)
When(cmp, x) == IF cmp = "E" THEN Err ELSE IF cmp = "T" THEN x ELSE None

(* dict.get(key): None for a missing key.                                   *)
Get(d, k) == IF k \in DOMAIN d THEN d[k] ELSE None

(* An assignment in place of the update: the keys of d are lost.            *)
Update_Replace(d, u) == u

(* d.update(u) on a copy of d.                                              *)
Update(d, u) ==
    [k \in (DOMAIN d) \cup (DOMAIN u) |-> IF k \in DOMAIN u THEN u[k] ELSE d[k]]

----------------------------------------------------------------------------
(* The five calculation groups                                              *)

(* The contract group without the original-only branch.                     *)
calculate_contract_fields_NoFallback(original_contract_amount, change_order_amount, prior_month_total_contract) ==
    LET total_contract ==
            IF original_contract_amount # None /\ change_order_amount # None
            THEN PyAdd(original_contract_amount, change_order_amount)
            ELSE None
        contract_variance ==
            IF total_contract # None /\ prior_month_total_contract # None
            THEN PySub(total_contract, prior_month_total_contract)
            ELSE None
    IN  [current_month_total_contract_amount |-> total_contract,
         current_vs_prior_contract_variance |-> contract_variance]

calculate_contract_fields(original_contract_amount, change_order_amount, prior_month_total_contract) ==
    LET total_contract ==
            IF original_contract_amount # None /\ change_order_amount # None
            THEN PyAdd(original_contract_amount, change_order_amount)
            ELSE IF original_contract_amount # None /\ change_order_amount = None
            THEN original_contract_amount
            ELSE None
        contract_variance ==
            IF total_contract # None /\ prior_month_total_contract # None
            THEN PySub(total_contract, prior_month_total_contract)
            ELSE None
    IN  [current_month_total_contract_amount |-> total_contract,
         current_vs_prior_contract_variance |-> contract_variance]

(* The cost group taking a missing cost to complete for zero, the way the   *)
(* contract group takes missing change orders.                              *)
calculate_cost_fields_DefaultZero(cost_to_date, estimated_cost_to_complete, prior_month_estimated_final_cost) ==
    LET estimated_final_cost ==
            IF cost_to_date # None /\ estimated_cost_to_complete # None
            THEN PyAdd(cost_to_date, estimated_cost_to_complete)
            ELSE IF cost_to_date # None /\ estimated_cost_to_complete = None
            THEN cost_to_date
            ELSE None
        final_cost_variance ==
            IF estimated_final_cost # None /\ prior_month_estimated_final_cost # None
            THEN PySub(estimated_final_cost, prior_month_estimated_final_cost)
            ELSE None
    IN  [current_month_estimated_final_cost |-> estimated_final_cost,
         current_vs_prior_estimated_final_cost_variance |-> final_cost_variance]

calculate_cost_fields(cost_to_date, estimated_cost_to_complete, prior_month_estimated_final_cost) ==
    LET estimated_final_cost ==
            IF cost_to_date # None /\ estimated_cost_to_complete # None
            THEN PyAdd(cost_to_date, estimated_cost_to_complete)
            ELSE None
        final_cost_variance ==
            IF estimated_final_cost # None /\ prior_month_estimated_final_cost # None
            THEN PySub(estimated_final_cost, prior_month_estimated_final_cost)
            ELSE None
    IN  [current_month_estimated_final_cost |-> estimated_final_cost,
         current_vs_prior_estimated_final_cost_variance |-> final_cost_variance]

calculate_us_gaap_fields(total_contract_amount, cost_to_date, estimated_final_cost) ==
    LET percent_completion ==
            IF cost_to_date # None /\ estimated_final_cost # None
            THEN When(PyGt(estimated_final_cost, Dec(0)),
                      PyPercentOf(cost_to_date, estimated_final_cost))
            ELSE None
        revenue_earned ==
            IF total_contract_amount # None /\ percent_completion # None
            THEN PyTimesPercent(total_contract_amount, percent_completion)
            ELSE None
        job_margin_to_date ==
            IF revenue_earned # None /\ cost_to_date # None
            THEN PySub(revenue_earned, cost_to_date)
            ELSE None
        job_margin_percent_sales ==
            IF job_margin_to_date # None /\ revenue_earned # None
            THEN When(PyGt(revenue_earned, Dec(0)),
                      PyPercentOf(job_margin_to_date, revenue_earned))
            ELSE None
    IN  [us_gaap_percent_completion |-> percent_completion,
         revenue_earned_to_date_us_gaap |-> revenue_earned,
         estimated_job_margin_to_date_us_gaap |-> job_margin_to_date,
         estimated_job_margin_to_date_percent_sales |-> job_margin_percent_sales]

(* The job-margin group with the variance taken as prior - current.         *)
calculate_job_margin_fields_Swapped(total_contract_amount, estimated_final_cost, prior_month_job_margin) ==
    LET job_margin_at_completion ==
            IF total_contract_amount # None /\ estimated_final_cost # None
            THEN PySub(total_contract_amount, estimated_final_cost)
            ELSE None
        job_margin_variance ==
            IF job_margin_at_completion # None /\ prior_month_job_margin # None
            THEN PySub(prior_month_job_margin, job_margin_at_completion)
            ELSE None
        job_margin_percent_sales ==
            IF job_margin_at_completion # None /\ total_contract_amount # None
            THEN When(PyGt(total_contract_amount, Dec(0)),
                      PyPercentOf(job_margin_at_completion, total_contract_amount))
            ELSE None
    IN  [current_month_estimated_job_margin_at_completion |-> job_margin_at_completion,
         current_vs_prior_estimated_job_margin |-> job_margin_variance,
         current_month_estimated_job_margin_percent_sales |-> job_margin_percent_sales]

calculate_job_margin_fields(total_contract_amount, estimated_final_cost, prior_month_job_margin) ==
    LET job_margin_at_completion ==
            IF total_contract_amount # None /\ estimated_final_cost # None
            THEN PySub(total_contract_amount, estimated_final_cost)
            ELSE None
        job_margin_variance ==
            IF job_margin_at_completion # None /\ prior_month_job_margin # None
            THEN PySub(job_margin_at_completion, prior_month_job_margin)
            ELSE None
        job_margin_percent_sales ==
            IF job_margin_at_completion # None /\ total_contract_amount # None
            THEN When(PyGt(total_contract_amount, Dec(0)),
                      PyPercentOf(job_margin_at_completion, total_contract_amount))
            ELSE None
    IN  [current_month_estimated_job_margin_at_completion |-> job_margin_at_completion,
         current_vs_prior_estimated_job_margin |-> job_margin_variance,
         current_month_estimated_job_margin_percent_sales |-> job_margin_percent_sales]

(* The WIP adjustments without the test that revenue billed is present.     *)
calculate_wip_adjustments_NoBilledCheck(revenue_earned, cost_to_date, billed_to_date) ==
    LET all_present == revenue_earned # None /\ cost_to_date # None
        costs_in_excess ==
            IF all_present
            THEN When(PyGt(cost_to_date, revenue_earned),
                      PySub(cost_to_date, revenue_earned))
            ELSE None
        billings_in_excess ==
            IF all_present
            THEN When(PyGt(billed_to_date, revenue_earned),
                      PySub(billed_to_date, revenue_earned))
            ELSE None
    IN  [current_month_costs_in_excess_billings |-> costs_in_excess,
         current_month_billings_excess_revenue |-> billings_in_excess]

(* The WIP adjustments taking both differences whenever the three amounts   *)
(* are present, whatever their sign.                                        *)
calculate_wip_adjustments_Unguarded(revenue_earned, cost_to_date, billed_to_date) ==
    LET all_present ==
            revenue_earned # None /\ billed_to_date # None /\ cost_to_date # None
    IN  [current_month_costs_in_excess_billings |->
             IF all_present THEN PySub(cost_to_date, revenue_earned) ELSE None,
         current_month_billings_excess_revenue |->
             IF all_present THEN PySub(billed_to_date, revenue_earned) ELSE None]

(* The WIP adjustments with costs in excess measured against billings.      *)
calculate_wip_adjustments_VsBilled(revenue_earned, cost_to_date, billed_to_date) ==
    LET all_present ==
            revenue_earned # None /\ billed_to_date # None /\ cost_to_date # None
        costs_in_excess ==
            IF all_present
            THEN When(PyGt(cost_to_date, billed_to_date),
                      PySub(cost_to_date, billed_to_date))
            ELSE None
        billings_in_excess ==
            IF all_present
            THEN When(PyGt(billed_to_date, revenue_earned),
                      PySub(billed_to_date, revenue_earned))
            ELSE None
    IN  [current_month_costs_in_excess_billings |-> costs_in_excess,
         current_month_billings_excess_revenue |-> billings_in_excess]

calculate_wip_adjustments(revenue_earned, cost_to_date, billed_to_date) ==
    LET all_present ==
            revenue_earned # None /\ billed_to_date # None /\ cost_to_date # None
        costs_in_excess ==
            IF all_present
            THEN When(PyGt(cost_to_date, revenue_earned),
                      PySub(cost_to_date, revenue_earned))
            ELSE None
        billings_in_excess ==
            IF all_present
            THEN When(PyGt(billed_to_date, revenue_earned),
                      PySub(billed_to_date, revenue_earned))
            ELSE None
    IN  [current_month_costs_in_excess_billings |-> costs_in_excess,
         current_month_billings_excess_revenue |-> billings_in_excess]

(* The cascade with groups 3 to 5 reading the caller's mapping instead of   *)
(* the values computed so far in this invocation.                           *)
calculate_all_fields_StaleInput(d) ==
    LET contract_calcs ==
            calculate_contract_fields(
                Get(d, "current_month_original_contract_amount"),
                Get(d, "current_month_change_order_amount"),
                Get(d, "prior_month_total_contract_amount"))
        r1 == Update(d, contract_calcs)
        cost_calcs ==
            calculate_cost_fields(
                Get(d, "current_month_cost_to_date"),
                Get(d, "current_month_estimated_cost_to_complete"),
                Get(d, "prior_month_estimated_final_cost"))
        r2 == Update(r1, cost_calcs)
        us_gaap_calcs ==
            calculate_us_gaap_fields(
                Get(d, "current_month_total_contract_amount"),
                Get(d, "current_month_cost_to_date"),
                Get(d, "current_month_estimated_final_cost"))
        r3 == Update(r2, us_gaap_calcs)
        job_margin_calcs ==
            calculate_job_margin_fields(
                Get(d, "current_month_total_contract_amount"),
                Get(d, "current_month_estimated_final_cost"),
                Get(d, "prior_month_estimated_job_margin_at_completion"))
        r4 == Update(r3, job_margin_calcs)
        wip_calcs ==
            calculate_wip_adjustments(
                Get(d, "revenue_earned_to_date_us_gaap"),
                Get(d, "current_month_cost_to_date"),
                Get(d, "current_month_revenue_billed_to_date"))
    IN  Update(r4, wip_calcs)

(* The mapping calculate_all_fields builds, an entry being Err where the    *)
(* expression computing it raises.                                          *)
calculate_all_fields(d) ==
    LET contract_calcs ==
            calculate_contract_fields(
                Get(d, "current_month_original_contract_amount"),
                Get(d, "current_month_change_order_amount"),
                Get(d, "prior_month_total_contract_amount"))
        r1 == Update(d, contract_calcs)
        cost_calcs ==
            calculate_cost_fields(
                Get(d, "current_month_cost_to_date"),
                Get(d, "current_month_estimated_cost_to_complete"),
                Get(d, "prior_month_estimated_final_cost"))
        r2 == Update(r1, cost_calcs)
        us_gaap_calcs ==
            calculate_us_gaap_fields(
                Get(r2, "current_month_total_contract_amount"),
                Get(d, "current_month_cost_to_date"),
                Get(r2, "current_month_estimated_final_cost"))
        r3 == Update(r2, us_gaap_calcs)
        job_margin_calcs ==
            calculate_job_margin_fields(
                Get(r3, "current_month_total_contract_amount"),
                Get(r3, "current_month_estimated_final_cost"),
                Get(d, "prior_month_estimated_job_margin_at_completion"))
        r4 == Update(r3, job_margin_calcs)
        wip_calcs ==
            calculate_wip_adjustments(
                Get(r4, "revenue_earned_to_date_us_gaap"),
                Get(d, "current_month_cost_to_date"),
                Get(d, "current_month_revenue_billed_to_date"))
    IN  Update(r4, wip_calcs)

----------------------------------------------------------------------------
(* Inputs                                                                   *)

(* The raw input fields of WIPInputData / WIPSnapshotBase used by the       *)
(* cascade, and the prior-period values the service adds when a prior       *)
(* snapshot exists.                                                         *)
RawInput(o, ch, c, e, b) ==
    [current_month_original_contract_amount |-> o,
     current_month_change_order_amount |-> ch,
     current_month_cost_to_date |-> c,
     current_month_estimated_cost_to_complete |-> e,
     current_month_revenue_billed_to_date |-> b]

PriorInput(pt, pf, pm) ==
    [prior_month_total_contract_amount |-> pt,
     prior_month_estimated_final_cost |-> pf,
     prior_month_estimated_job_margin_at_completion |-> pm]

NoResult == [k \in {} |-> None]

Amounts == {None} \cup {Dec(x) : x \in (-1)..MaxAmt}
PriorAmounts == {None} \cup {Dec(x) : x \in 1..MaxPrior}

(* Every combination of absent, negative, zero and positive raw inputs,     *)
(* with or without a prior snapshot.                                        *)
InitSmall ==
    \E o, ch, c, e, b \in Amounts :
        \/ input_data = RawInput(o, ch, c, e, b)
        \/ \E pt, pf, pm \in PriorAmounts :
               input_data = Update(RawInput(o, ch, c, e, b), PriorInput(pt, pf, pm))

(* Amounts whose ratios fall exactly halfway between two hundredths.        *)
InitRounding ==
    \E c \in 0..MaxRoundCost, e \in 0..MaxRoundEtc, o \in 0..MaxRoundContract :
        input_data = RawInput(Dec(o), None, Dec(c), Dec(e), None)

(* The worked period of the specification (original 1,000,000, change       *)
(* orders 50,000, cost to date 300,000, cost to complete 700,000), in       *)
(* thousands.                                                               *)
InitScenario ==
    \E b \in {None, Dec(31000), Dec(32000)} :
        input_data = RawInput(Dec(100000), Dec(5000), Dec(30000), Dec(70000), b)

(* The mapping WIPService.update_wip_snapshot passes: the record's          *)
(* identifiers and its additional-entry override beside the raw inputs,     *)
(* with or without a derived key already set by the caller.                 *)
Identifiers ==
    [project_id |-> [tag |-> "int", v |-> 1],
     report_date |-> [tag |-> "date", v |-> 1],
     job_number |-> [tag |-> "str", v |-> 1]]

InitPassthrough ==
    \E o, a \in Amounts, c \in {None, Dec(1)} :
        LET d == Update(Update(RawInput(o, None, c, Dec(1), None), Identifiers),
                        [current_month_addl_entry_required |-> a])
        IN  \/ input_data = d
            \/ input_data = Update(d, [current_month_total_contract_amount |-> Dec(MaxAmt + 1)])

(* A contract of one cent with costs of up to MaxTinyCost cents: amounts the *)
(* Numeric(15,2) columns hold, with ratios of a thousand percent and more.  *)
InitTinyContract ==
    \E c \in 0..MaxTinyCost :
        input_data = RawInput(Dec(1), None, Dec(c), Dec(0), Dec(1))

Callers == {1, 2}

NoCall == [input |-> NoResult, result |-> NoResult, step |-> 0]

CallsIdle ==
    /\ calls = [i \in Callers |-> NoCall]
    /\ history = {}

DetectIdle ==
    /\ current = None
    /\ prior = None
    /\ detected = {}

NoRequest == [op |-> "none", status |-> 0, id |-> 0, request |-> NoResult]

StoreIdle ==
    /\ snapshots = {}
    /\ next_id = 1
    /\ last = NoRequest
    /\ requests = 0
    /\ comparison = NoResult

(* The projects table as the requests find it: projects 1 and 2, active.    *)
Projects == {1, 2}

Clients == {1, 2}

NoLatest == [called |-> FALSE, rows |-> << >>]

AppIdle ==
    /\ projects = {[id |-> p, job_number |-> p, is_active |-> TRUE] : p \in Projects}
    /\ next_project_id = 3
    /\ explanations = {}
    /\ next_explanation_id = 1
    /\ pending = [c \in Clients |-> NoResult]
    /\ latest = NoLatest

Init ==
    /\ InitSmall \/ InitRounding \/ InitScenario \/ InitPassthrough \/ InitTinyContract
    /\ result = NoResult
    /\ pc = "call"
    /\ CallsIdle
    /\ DetectIdle
    /\ StoreIdle
    /\ AppIdle

HasErr(r) == \E k \in DOMAIN r : r[k] = Err

(* One invocation of WIPCalculator.calculate_all_fields(input_data).        *)
Calculate ==
    /\ pc = "call"
    /\ LET r == calculate_all_fields(input_data)
       IN  IF HasErr(r)
           THEN /\ pc' = "raise"
                /\ result' = NoResult
           ELSE /\ pc' = "return"
                /\ result' = r
    /\ UNCHANGED input_data
    /\ UNCHANGED <<call_vars, detect_vars, store_vars, app_vars>>

Next == Calculate

Spec == Init /\ [][Next]_vars

----------------------------------------------------------------------------
(* Callers running calculate_all_fields side by side, one calculation       *)
(* group at a time.                                                         *)

(* What group k of calculate_all_fields computes from the argument d and    *)
(* the result mapping r built so far.                                       *)
GroupOutput(k, d, r) ==
    CASE k = 1 ->
           calculate_contract_fields(
               Get(d, "current_month_original_contract_amount"),
               Get(d, "current_month_change_order_amount"),
               Get(d, "prior_month_total_contract_amount"))
      [] k = 2 ->
           calculate_cost_fields(
               Get(d, "current_month_cost_to_date"),
               Get(d, "current_month_estimated_cost_to_complete"),
               Get(d, "prior_month_estimated_final_cost"))
      [] k = 3 ->
           calculate_us_gaap_fields(
               Get(r, "current_month_total_contract_amount"),
               Get(d, "current_month_cost_to_date"),
               Get(r, "current_month_estimated_final_cost"))
      [] k = 4 ->
           calculate_job_margin_fields(
               Get(r, "current_month_total_contract_amount"),
               Get(r, "current_month_estimated_final_cost"),
               Get(d, "prior_month_estimated_job_margin_at_completion"))
      [] OTHER ->
           calculate_wip_adjustments(
               Get(r, "revenue_earned_to_date_us_gaap"),
               Get(d, "current_month_cost_to_date"),
               Get(d, "current_month_revenue_billed_to_date"))

(* The groups accumulating into one mapping shared by every caller (here    *)
(* the first caller's) instead of the invocation's own.                     *)
CascadeStep_Shared(k, d, r) ==
    Update(calls[1].result, GroupOutput(k, d, calls[1].result))

(* result.update(<output of group k>) on the invocation's own mapping.      *)
CascadeStep(k, d, r) == Update(r, GroupOutput(k, d, r))

CallInputs ==
    LET raw(o) == RawInput(Dec(o), None, Dec(1), Dec(1), Dec(1))
    IN  {raw(o) : o \in 1..MaxCallAmt}
        \cup {Update(raw(o), PriorInput(Dec(1), Dec(1), None)) : o \in 1..MaxCallAmt}

InitCalls ==
    /\ input_data = NoResult
    /\ result = NoResult
    /\ pc = "idle"
    /\ CallsIdle
    /\ DetectIdle
    /\ StoreIdle
    /\ AppIdle

(* Caller i enters calculate_all_fields(d): result = input_data.copy().     *)
Invoke(i, d) ==
    /\ calls[i].step = 0
    /\ calls' = [calls EXCEPT ![i] = [input |-> d, result |-> d, step |-> 1]]
    /\ UNCHANGED <<history, calc_vars, detect_vars, store_vars, app_vars>>

(* Caller i runs its next calculation group; an exception ends the call.    *)
Step(i) ==
    /\ calls[i].step \in 1..5
    /\ LET c == calls[i]
           r == CascadeStep(c.step, c.input, c.result)
       IN  calls' = [calls EXCEPT ![i] =
                        IF HasErr(r) THEN NoCall
                        ELSE [c EXCEPT !.result = r, !.step = c.step + 1]]
    /\ UNCHANGED <<history, calc_vars, detect_vars, store_vars, app_vars>>

(* Caller i returns its result mapping.                                     *)
Return(i) ==
    /\ calls[i].step = 6
    /\ history' = history \cup {<<calls[i].input, calls[i].result>>}
    /\ calls' = [calls EXCEPT ![i] = NoCall]
    /\ UNCHANGED <<calc_vars, detect_vars, store_vars, app_vars>>

NextCalls ==
    \E i \in Callers :
        \/ \E d \in CallInputs : Invoke(i, d)
        \/ Step(i)
        \/ Return(i)

SpecCalls == InitCalls /\ [][NextCalls]_vars

----------------------------------------------------------------------------
(* WIPService._detect_significant_changes                                   *)

key_fields ==
    {"current_month_total_contract_amount",
     "current_month_estimated_final_cost",
     "current_month_estimated_job_margin_at_completion",
     "us_gaap_percent_completion"}

(* f"{field}_changed"                                                       *)
ChangedKey ==
    [current_month_total_contract_amount |->
         "current_month_total_contract_amount_changed",
     current_month_estimated_final_cost |->
         "current_month_estimated_final_cost_changed",
     current_month_estimated_job_margin_at_completion |->
         "current_month_estimated_job_margin_at_completion_changed",
     us_gaap_percent_completion |->
         "us_gaap_percent_completion_changed"]

(* Python truth value of an optional Decimal: None and 0 are both false.    *)
Truthy(x) == x # None /\ x.v # 0

(* if current_val and prior_val and prior_val != 0                          *)
Comparable(cur, pri) == Truthy(cur) /\ Truthy(pri) /\ pri.v # 0

(* The comparison with its direction reversed.                              *)
ChangeExceeds_Below(cur, pri, t) ==
    Abs(cur.v - pri.v) * 100 < t * Abs(pri.v)

(* abs((current_val - prior_val) / prior_val * 100) > threshold_percent,    *)
(* with the division cleared: two-decimal amounts of at most 15 digits are  *)
(* far apart enough for the 28-digit quotient to compare like the exact one.*)
ChangeExceeds(cur, pri, t) ==
    Abs(cur.v - pri.v) * 100 > t * Abs(pri.v)

(* all() in the place of any().                                             *)
AnyValue_All(flags) == \A k \in DOMAIN flags : flags[k]

(* any(changes.values())                                                    *)
AnyValue(flags) == \E k \in DOMAIN flags : flags[k]

_detect_significant_changes(cur_snap, prior_snap, threshold_percent) ==
    IF cur_snap = None \/ prior_snap = None
    THEN [has_significant_changes |-> FALSE]
    ELSE LET cmp == {f \in key_fields : Comparable(cur_snap[f], prior_snap[f])}
             changes ==
                 [k \in {ChangedKey[f] : f \in cmp} |->
                     LET f == CHOOSE g \in cmp : ChangedKey[g] = k
                     IN  ChangeExceeds(cur_snap[f], prior_snap[f], threshold_percent)]
         IN  Update(changes, [has_significant_changes |-> AnyValue(changes)])

Thresholds == {0, 5, MaxThreshold}

(* A snapshot as the comparison reads it: its four tracked fields.          *)
TrackedSnapshot(t, f, m, p) ==
    [current_month_total_contract_amount |-> t,
     current_month_estimated_final_cost |-> f,
     current_month_estimated_job_margin_at_completion |-> m,
     us_gaap_percent_completion |-> p]

InitDetect ==
    /\ input_data = NoResult
    /\ result = NoResult
    /\ pc = "idle"
    /\ CallsIdle
    /\ StoreIdle
    /\ AppIdle
    /\ detected = {}
    /\ LET Cur == {None, Dec(0), Dec(20), Dec(21), Dec(22)}
           Pri == {None, Dec(0), Dec(20)}
           Few == {None, Dec(22)}
       IN  \/ /\ current \in {TrackedSnapshot(t, f, m, p) :
                                 t \in Cur, f \in Cur, m \in Few, p \in Few}
              /\ prior \in {TrackedSnapshot(t, f, m, p) :
                               t \in Pri, f \in Pri,
                               m \in {None, Dec(20)}, p \in {None, Dec(20)}}
           \/ /\ current \in {None, TrackedSnapshot(Dec(22), Dec(22), None, None)}
              /\ prior \in {None, TrackedSnapshot(Dec(20), Dec(20), None, None)}
              /\ current = None \/ prior = None

(* One evaluation of the comparison at threshold t.                         *)
Detect(t) ==
    /\ detected' = detected \cup {<<t, _detect_significant_changes(current, prior, t)>>}
    /\ UNCHANGED <<current, prior, calc_vars, call_vars, store_vars, app_vars>>

NextDetect == \E t \in Thresholds : Detect(t)

SpecDetect == InitDetect /\ [][NextDetect]_vars

----------------------------------------------------------------------------
(* Reading the state                                                        *)

Returned == pc = "return"

in_original == Get(input_data, "current_month_original_contract_amount")
in_change == Get(input_data, "current_month_change_order_amount")
in_cost == Get(input_data, "current_month_cost_to_date")
in_etc == Get(input_data, "current_month_estimated_cost_to_complete")
in_billed == Get(input_data, "current_month_revenue_billed_to_date")
in_prior_total == Get(input_data, "prior_month_total_contract_amount")
in_prior_final_cost == Get(input_data, "prior_month_estimated_final_cost")
in_prior_margin == Get(input_data, "prior_month_estimated_job_margin_at_completion")
HasPrior == "prior_month_total_contract_amount" \in DOMAIN input_data

out_total == Get(result, "current_month_total_contract_amount")
out_contract_variance == Get(result, "current_vs_prior_contract_variance")
out_final_cost == Get(result, "current_month_estimated_final_cost")
out_final_cost_variance == Get(result, "current_vs_prior_estimated_final_cost_variance")
out_percent == Get(result, "us_gaap_percent_completion")
out_revenue == Get(result, "revenue_earned_to_date_us_gaap")
out_margin_to_date == Get(result, "estimated_job_margin_to_date_us_gaap")
out_margin_to_date_percent == Get(result, "estimated_job_margin_to_date_percent_sales")
out_margin == Get(result, "current_month_estimated_job_margin_at_completion")
out_margin_variance == Get(result, "current_vs_prior_estimated_job_margin")
out_margin_percent == Get(result, "current_month_estimated_job_margin_percent_sales")
out_costs_in_excess == Get(result, "current_month_costs_in_excess_billings")
out_billings_in_excess == Get(result, "current_month_billings_excess_revenue")

DerivedKeys ==
    {"current_month_total_contract_amount", "current_vs_prior_contract_variance",
     "current_month_estimated_final_cost",
     "current_vs_prior_estimated_final_cost_variance",
     "us_gaap_percent_completion", "revenue_earned_to_date_us_gaap",
     "estimated_job_margin_to_date_us_gaap",
     "estimated_job_margin_to_date_percent_sales",
     "current_month_estimated_job_margin_at_completion",
     "current_vs_prior_estimated_job_margin",
     "current_month_estimated_job_margin_percent_sales",
     "current_month_costs_in_excess_billings",
     "current_month_billings_excess_revenue"}

(* p is a multiple of 0.01 nearest to n / d (d > 0), whatever the tie rule. *)
IsNearest(p, n, d) == 2 * Abs(p * d - n) <= d

(* p is n / d (d > 0) rounded to the nearest hundredth, a tie going to the  *)
(* neighbour farther from zero.                                             *)
IsHalfUp(p, n, d) ==
    /\ IsNearest(p, n, d)
    /\ 2 * Abs(p * d - n) = d => Abs(p * d) > Abs(n)

(* x is absent exactly when cond fails, and otherwise the Decimal val.      *)
IsOptional(x, cond, val) == IF cond THEN x = Dec(val) ELSE x = None

----------------------------------------------------------------------------
(* No raw input and no prior value is negative.                             *)
NonNegativeInputs == \A k \in DOMAIN input_data : input_data[k].v >= 0

(* C1: the result of calculate_all_fields never has both                    *)
(* current_month_costs_in_excess_billings and                               *)
(* current_month_billings_excess_revenue present.  The code sets both when  *)
(* cost to date and revenue billed both exceed revenue earned, already for  *)
(* non-negative inputs.                                                     *)
C1_MutuallyExclusive ==
    (Returned /\ NonNegativeInputs) =>
        ~(out_costs_in_excess # None /\ out_billings_in_excess # None)

(* C2: every percentage present in the result is the exact ratio rounded    *)
(* to 2 decimal places with ties rounded half-up (away from zero).  The     *)
(* code quantizes under the default context, which sends ties to the even   *)
(* hundredth.                                                               *)
C2_RoundHalfUp ==
    Returned =>
        /\ out_percent # None =>
               IsHalfUp(out_percent.v, 10000 * in_cost.v, out_final_cost.v)
        /\ out_margin_to_date_percent # None =>
               IsHalfUp(out_margin_to_date_percent.v,
                        10000 * out_margin_to_date.v, out_revenue.v)
        /\ out_margin_percent # None =>
               IsHalfUp(out_margin_percent.v, 10000 * out_margin.v, out_total.v)

(* What the contract group must yield for the inputs of this invocation.    *)
ExpectedTotal ==
    IF in_original # None /\ in_change # None
    THEN Dec(in_original.v + in_change.v)
    ELSE IF in_original # None THEN in_original ELSE None

(* Null propagation of every derived field but the contract total.          *)
NullPropagationBelowTotal ==
    /\ (out_total = None \/ in_prior_total = None) => out_contract_variance = None
    /\ (in_cost = None \/ in_etc = None) => out_final_cost = None
    /\ (out_final_cost = None \/ in_prior_final_cost = None)
           => out_final_cost_variance = None
    /\ (in_cost = None \/ out_final_cost = None) => out_percent = None
    /\ (out_total = None \/ out_percent = None) => out_revenue = None
    /\ (out_revenue = None \/ in_cost = None) => out_margin_to_date = None
    /\ (out_margin_to_date = None \/ out_revenue = None)
           => out_margin_to_date_percent = None
    /\ (out_total = None \/ out_final_cost = None) => out_margin = None
    /\ (out_margin = None \/ in_prior_margin = None) => out_margin_variance = None
    /\ (out_margin = None \/ out_total = None) => out_margin_percent = None
    /\ (out_revenue = None \/ in_cost = None \/ in_billed = None)
           => (out_costs_in_excess = None /\ out_billings_in_excess = None)

(* C3 as stated: a derived field is absent whenever any one of its direct   *)
(* dependencies is absent, the contract total included (original amount     *)
(* and change-order amount).                                                *)
C3_NullPropagation ==
    Returned =>
        /\ (in_original = None \/ in_change = None) => out_total = None
        /\ NullPropagationBelowTotal

(* C3 amended: a derived field is absent whenever any one of its direct     *)
(* dependencies is absent, except that the contract total is present and    *)
(* equal to the original amount when only the change-order amount is        *)
(* absent.                                                                  *)
C3_NullPropagationAmended ==
    Returned =>
        /\ in_original = None => out_total = None
        /\ (in_original # None /\ in_change = None) => out_total = in_original
        /\ NullPropagationBelowTotal

(* The exception and the rule in one state: the total stands on the        *)
(* original amount alone, while the estimated final cost, wanting only the  *)
(* cost to complete, is absent and so is the job margin that needs it.      *)
C3_Witness ==
    /\ Returned
    /\ in_original # None /\ in_change = None /\ out_total = in_original
    /\ in_cost # None /\ in_etc = None /\ out_final_cost = None
    /\ out_margin = None

(* C4: percent completion is present exactly when the estimated final cost  *)
(* is present and strictly positive; otherwise it is absent together with   *)
(* revenue earned, job margin to date, its percentage and both WIP          *)
(* adjustments, and the call returns without raising.                       *)
C4_DivisionGuard ==
    pc # "call" =>
        /\ Returned
        /\ out_percent # None <=> (out_final_cost # None /\ out_final_cost.v > 0)
        /\ (out_final_cost = None \/ out_final_cost.v <= 0) =>
               /\ out_percent = None
               /\ out_revenue = None
               /\ out_margin_to_date = None
               /\ out_margin_to_date_percent = None
               /\ out_costs_in_excess = None
               /\ out_billings_in_excess = None

(* The guard fires: a zero estimated final cost with every other input      *)
(* present.                                                                 *)
C4_Witness ==
    /\ Returned
    /\ out_final_cost = Dec(0)
    /\ in_cost # None /\ in_cost.v > 0
    /\ out_total # None /\ in_billed # None
    /\ out_percent = None

C6_ContractTotal ==
    Returned =>
        /\ (in_original # None /\ in_change # None)
               => out_total = Dec(in_original.v + in_change.v)
        /\ (in_original # None /\ in_change = None) => out_total = in_original
        /\ in_original = None => out_total = None

C6_Witness ==
    /\ Returned
    /\ in_original # None /\ in_original.v > 0 /\ in_change = None
    /\ out_total = in_original

(* C7: each of the three variances is current - prior when both are         *)
(* present and absent otherwise; without a prior snapshot all three are     *)
(* absent while the current values are still computed.                      *)
C7_Variances ==
    Returned =>
        /\ IsOptional(out_contract_variance,
                      out_total # None /\ in_prior_total # None,
                      out_total.v - in_prior_total.v)
        /\ IsOptional(out_final_cost_variance,
                      out_final_cost # None /\ in_prior_final_cost # None,
                      out_final_cost.v - in_prior_final_cost.v)
        /\ IsOptional(out_margin_variance,
                      out_margin # None /\ in_prior_margin # None,
                      out_margin.v - in_prior_margin.v)
        /\ ~HasPrior =>
               /\ out_contract_variance = None
               /\ out_final_cost_variance = None
               /\ out_margin_variance = None
               /\ out_total = ExpectedTotal
               /\ (in_cost # None /\ in_etc # None)
                      => out_final_cost = Dec(in_cost.v + in_etc.v)

(* All three variances present and different from the current values.       *)
C7_Witness ==
    /\ Returned
    /\ HasPrior
    /\ out_contract_variance # None /\ out_contract_variance # out_total
    /\ out_final_cost_variance # None /\ out_final_cost_variance.v < 0
    /\ out_margin_variance # None /\ out_margin_variance # out_margin

C10_WipAdjustments ==
    Returned =>
        IF out_revenue # None /\ in_cost # None /\ in_billed # None
        THEN /\ IsOptional(out_costs_in_excess, in_cost.v > out_revenue.v,
                           in_cost.v - out_revenue.v)
             /\ IsOptional(out_billings_in_excess, in_billed.v > out_revenue.v,
                           in_billed.v - out_revenue.v)
        ELSE out_costs_in_excess = None /\ out_billings_in_excess = None

(* Revenue billed is absent while cost to date exceeds revenue earned.      *)
C10_Witness ==
    /\ Returned
    /\ in_billed = None
    /\ out_revenue # None /\ in_cost.v > out_revenue.v
    /\ out_costs_in_excess = None /\ out_billings_in_excess = None

(* C12: a percent completion present in the result lies between 0 and 100  *)
(* inclusive, for every input the cascade accepts.  The cascade accepts a   *)
(* negative cost to date or cost to complete and then yields a negative     *)
(* percentage or one above 100.                                             *)
C12_PercentRange ==
    (Returned /\ out_percent # None) =>
        (0 <= out_percent.v /\ out_percent.v <= 10000)

(* C19: calculate_all_fields leaves its argument unchanged, and the result  *)
(* holds every key of the input with the input's value, the thirteen        *)
(* derived keys being the only ones added or overwritten.                   *)
C19_Frame ==
    /\ [](Returned =>
            /\ DOMAIN result = (DOMAIN input_data) \cup DerivedKeys
            /\ \A k \in (DOMAIN input_data) \ DerivedKeys : result[k] = input_data[k])
    /\ [][input_data' = input_data]_vars

(* The override and the identifiers pass through, and a derived key the     *)
(* caller had set is overwritten.                                           *)
C19_Witness ==
    /\ Returned
    /\ "current_month_addl_entry_required" \in DOMAIN input_data
    /\ result["current_month_addl_entry_required"] = Dec(1)
    /\ result["project_id"] = input_data["project_id"]
    /\ "current_month_total_contract_amount" \in DOMAIN input_data
    /\ out_total # input_data["current_month_total_contract_amount"]

----------------------------------------------------------------------------
(* The snapshot store: WIPService and the endpoints of api/endpoints/wip.py *)

RawKeys ==
    {"current_month_original_contract_amount",
     "current_month_change_order_amount",
     "current_month_cost_to_date",
     "current_month_estimated_cost_to_complete",
     "current_month_revenue_billed_to_date",
     "current_month_addl_entry_required"}

PriorKeys ==
    {"prior_month_total_contract_amount",
     "prior_month_estimated_final_cost",
     "prior_month_estimated_job_margin_at_completion"}

Columns ==
    {"id", "project_id", "report_date", "job_number", "created_by"}
        \cup RawKeys \cup PriorKeys \cup DerivedKeys

IntVal(n) == [tag |-> "int", v |-> n]
DateVal(n) == [tag |-> "date", v |-> n]
StrVal(n) == [tag |-> "str", v |-> n]

(* The project ids and the dates requests are made with.                   *)
ProjectIds == {1, 2, 3}
Dates == {1, 2, 3}

(* A row with every column NULL.                                            *)
EmptyRow == [c \in Columns |-> None]

(* The query of get_prior_month_data in ascending order of date.            *)
get_prior_month_data_Ascending(rows, project_id, current_date) ==
    LET earlier == {r \in rows : /\ r["project_id"] = IntVal(project_id)
                                 /\ r["report_date"].v < current_date}
        first == {r \in earlier :
                     \A q \in earlier : r["report_date"].v <= q["report_date"].v}
    IN  IF first = {} THEN {None} ELSE first

(* The rows .first() may return for the query of get_prior_month_data       *)
(* ({None} when the query is empty).                                        *)
get_prior_month_data(rows, project_id, current_date) ==
    LET earlier == {r \in rows : /\ r["project_id"] = IntVal(project_id)
                                 /\ r["report_date"].v < current_date}
        first == {r \in earlier :
                     \A q \in earlier : q["report_date"].v <= r["report_date"].v}
    IN  IF first = {} THEN {None} ELSE first

(* The three prior_month_* entries added when a prior snapshot was found.   *)
WithPrior(d, prior_month) ==
    IF prior_month = None THEN d
    ELSE Update(d, PriorInput(prior_month["current_month_total_contract_amount"],
                              prior_month["current_month_estimated_final_cost"],
                              prior_month["current_month_estimated_job_margin_at_completion"]))

(* setattr(row, field, value) for every item of values the row has.         *)
SetAttrs(row, values) ==
    [c \in Columns |-> IF c \in DOMAIN values THEN values[c] ELSE row[c]]

(* The update writing back only the fields the request names.               *)
update_wip_snapshot_OnlyNamed(wip_snapshot, update_dict, prior_month) ==
    SetAttrs(wip_snapshot, update_dict)

(* The update taking every field of the request schema, the unset ones as   *)
(* null.                                                                    *)
update_wip_snapshot_UnsetAsNull(wip_snapshot, update_dict, prior_month) ==
    LET current_data ==
            [k \in {"project_id", "report_date", "job_number"} \cup RawKeys |->
                IF k \in RawKeys THEN Get(update_dict, k) ELSE wip_snapshot[k]]
        calculated_data == calculate_all_fields(WithPrior(current_data, prior_month))
    IN  SetAttrs(wip_snapshot, Update(calculated_data, [created_by |-> IntVal(1)]))

(* WIPService.update_wip_snapshot: the row as committed, given the prior    *)
(* snapshot the lookup returned.                                            *)
update_wip_snapshot(wip_snapshot, update_dict, prior_month) ==
    LET current_data ==
            [k \in {"project_id", "report_date", "job_number"} \cup RawKeys |->
                wip_snapshot[k]]
        calculated_data ==
            calculate_all_fields(WithPrior(Update(current_data, update_dict), prior_month))
    IN  SetAttrs(wip_snapshot, Update(calculated_data, [created_by |-> IntVal(1)]))

(* WIPService.create_wip_snapshot: the row as committed under key id.       *)
create_wip_snapshot(id, wip_data, prior_month) ==
    LET calculated_data == calculate_all_fields(WithPrior(wip_data, prior_month))
    IN  SetAttrs(EmptyRow, Update(calculated_data, [id |-> IntVal(id), created_by |-> IntVal(1)]))

(* The bodies of the create requests: wip_data.dict(exclude_unset=True).    *)
CreateRequests ==
    {Update(RawInput(o, None, Dec(1), Dec(1), None),
            [project_id |-> IntVal(p), report_date |-> DateVal(d), job_number |-> StrVal(p)]) :
        o \in {Dec(0), Dec(MaxStoreAmt)}, p \in ProjectIds, d \in Dates}

(* The bodies of the update requests: update_data.dict(exclude_unset=True), *)
(* a field set to null being kept with the value None.                      *)
UpdateRequests ==
    {NoResult,
     [current_month_original_contract_amount |-> None],
     [current_month_original_contract_amount |-> Dec(1)],
     [current_month_cost_to_date |-> Dec(0),
      current_month_change_order_amount |-> Dec(1)]}

Rejected(op, status) == [op |-> op, status |-> status, id |-> 0, request |-> NoResult]

(* POST /wip/ : the endpoint and the service call it makes.                 *)
Create(wip_data) ==
    /\ requests < MaxRequests
    /\ requests' = requests + 1
    /\ LET p == wip_data["project_id"].v
           d == wip_data["report_date"].v
       IN  IF ~\E project \in projects : project.id = p
           THEN /\ last' = Rejected("create", 404)
                /\ UNCHANGED <<snapshots, next_id>>
           ELSE IF \E r \in snapshots :
                       r["project_id"] = IntVal(p) /\ r["report_date"] = DateVal(d)
           THEN /\ last' = Rejected("create", 400)
                /\ UNCHANGED <<snapshots, next_id>>
           ELSE \E prior_month \in get_prior_month_data(snapshots, p, d) :
                   LET db_wip == create_wip_snapshot(next_id, wip_data, prior_month)
                   IN  IF HasErr(db_wip)
                       THEN /\ last' = Rejected("create", 500)
                            /\ UNCHANGED <<snapshots, next_id>>
                       ELSE /\ snapshots' = snapshots \cup {db_wip}
                            /\ next_id' = next_id + 1
                            /\ last' = [op |-> "create", status |-> 201,
                                        id |-> next_id, request |-> wip_data]
    /\ UNCHANGED <<comparison, calc_vars, call_vars, detect_vars, app_vars>>

(* PUT /wip/{wip_id} : the endpoint and the service call it makes.          *)
UpdateSnapshot(wip_id, update_dict) ==
    /\ requests < MaxRequests
    /\ requests' = requests + 1
    /\ IF ~\E r \in snapshots : r["id"] = IntVal(wip_id)
       THEN /\ last' = Rejected("update", 404)
            /\ UNCHANGED snapshots
       ELSE LET wip_snapshot == CHOOSE r \in snapshots : r["id"] = IntVal(wip_id)
            IN  \E prior_month \in get_prior_month_data(snapshots,
                                       wip_snapshot["project_id"].v,
                                       wip_snapshot["report_date"].v) :
                    LET updated == update_wip_snapshot(wip_snapshot, update_dict, prior_month)
                    IN  IF HasErr(updated)
                        THEN /\ last' = Rejected("update", 500)
                             /\ UNCHANGED snapshots
                        ELSE /\ snapshots' = (snapshots \ {wip_snapshot}) \cup {updated}
                             /\ last' = [op |-> "update", status |-> 200,
                                         id |-> wip_id, request |-> update_dict]
    /\ UNCHANGED <<next_id, comparison, calc_vars, call_vars, detect_vars, app_vars>>

(* The delete of a snapshot leaving its explanations behind.                *)
cascade_delete_orphan_None(explanation_rows, wip_id) == explanation_rows

(* relationship("CellExplanation", cascade="all, delete-orphan"): the       *)
(* explanations left when the snapshot wip_id is deleted.                   *)
cascade_delete_orphan(explanation_rows, wip_id) ==
    {e \in explanation_rows : e.wip_snapshot_id # wip_id}

(* DELETE /wip/{wip_id} : db.delete cascades to the snapshot's explanations.*)
DeleteSnapshot(wip_id) ==
    /\ requests < MaxRequests
    /\ requests' = requests + 1
    /\ IF ~\E r \in snapshots : r["id"] = IntVal(wip_id)
       THEN /\ last' = Rejected("delete", 404)
            /\ UNCHANGED <<snapshots, explanations>>
       ELSE /\ snapshots' = {r \in snapshots : r["id"] # IntVal(wip_id)}
            /\ explanations' = cascade_delete_orphan(explanations, wip_id)
            /\ last' = [op |-> "delete", status |-> 204, id |-> wip_id,
                        request |-> NoResult]
    /\ UNCHANGED <<next_id, comparison, projects, next_project_id, next_explanation_id, pending, latest>>
    /\ UNCHANGED <<calc_vars, call_vars, detect_vars>>

InitStore ==
    /\ input_data = NoResult
    /\ result = NoResult
    /\ pc = "idle"
    /\ CallsIdle
    /\ DetectIdle
    /\ StoreIdle
    /\ AppIdle

NextStore ==
    \/ \E wip_data \in CreateRequests : Create(wip_data)
    \/ \E wip_id \in 1..MaxRequests, update_dict \in UpdateRequests :
           UpdateSnapshot(wip_id, update_dict)
    \/ \E wip_id \in 1..MaxRequests : DeleteSnapshot(wip_id)

SpecStore == InitStore /\ [][NextStore]_vars

----------------------------------------------------------------------------
(* GET /wip/compare/{project_id}                                            *)

(* The first row of the query by project and report date, None if empty.    *)
FirstByDate(rows, project_id, report_date) ==
    LET found == {r \in rows : /\ r["project_id"] = IntVal(project_id)
                               /\ r["report_date"] = DateVal(report_date)}
    IN  IF found = {} THEN {None} ELSE found

(* if current_wip.<field> and previous_wip.<field>                          *)
BothTruthy(a, b) == Truthy(a) /\ Truthy(b)

(* One change amount of the endpoint.                                       *)
ChangeAmount(current_wip, previous_wip, field) ==
    IF /\ current_wip # None
       /\ previous_wip # None
       /\ BothTruthy(current_wip[field], previous_wip[field])
    THEN PySub(current_wip[field], previous_wip[field])
    ELSE None

(* WIPService.get_month_comparison, given the rows its queries returned.    *)
get_month_comparison(current_wip, prior_wip) ==
    [current_month |-> current_wip,
     prior_month |-> prior_wip,
     has_changes |-> _detect_significant_changes(current_wip, prior_wip, 5)]

(* The response of compare_wip_snapshots built from the comparison.         *)
WIPComparisonResponse(project_id, cmp) ==
    [status |-> 200,
     project_id |-> project_id,
     current_month |-> cmp["current_month"],
     previous_month |-> cmp["prior_month"],
     has_significant_changes |->
         IF "has_significant_changes" \in DOMAIN cmp
         THEN cmp["has_significant_changes"] ELSE FALSE,
     contract_amount_change |->
         ChangeAmount(cmp["current_month"], cmp["prior_month"],
                      "current_month_total_contract_amount"),
     estimated_final_cost_change |->
         ChangeAmount(cmp["current_month"], cmp["prior_month"],
                      "current_month_estimated_final_cost"),
     job_margin_change |->
         ChangeAmount(cmp["current_month"], cmp["prior_month"],
                      "current_month_estimated_job_margin_at_completion"),
     percent_completion_change |->
         ChangeAmount(cmp["current_month"], cmp["prior_month"],
                      "us_gaap_percent_completion")]

(* previous_date 0 stands for the query parameter left out.                 *)
Compare(project_id, current_date, previous_date) ==
    /\ IF ~\E project \in projects : project.id = project_id
       THEN comparison' = [status |-> 404]
       ELSE \E current_wip \in FirstByDate(snapshots, project_id, current_date) :
            \E prior_wip \in
                   IF previous_date # 0
                   THEN FirstByDate(snapshots, project_id, previous_date)
                   ELSE get_prior_month_data(snapshots, project_id, current_date) :
                comparison' =
                    WIPComparisonResponse(project_id,
                                          get_month_comparison(current_wip, prior_wip))
    /\ UNCHANGED <<snapshots, next_id, last, requests, calc_vars, call_vars, detect_vars, app_vars>>

(* The raw inputs of the snapshots the comparison is run on.                *)
CompareInputs ==
    {RawInput(o, None, c, e, None) :
        o \in {None, Dec(0), Dec(MaxStoreAmt)}, c \in {Dec(0), Dec(1)}, e \in {Dec(0), Dec(1)}}

CreateRequest(p, d, raw) ==
    Update(raw, [project_id |-> IntVal(p), report_date |-> DateVal(d), job_number |-> StrVal(p)])

(* A store as creates leave it: no snapshot, one snapshot of project 1, or  *)
(* its snapshots of dates 1 and 2 created in that order.                    *)
InitCompare ==
    /\ input_data = NoResult
    /\ result = NoResult
    /\ pc = "idle"
    /\ CallsIdle
    /\ DetectIdle
    /\ comparison = NoResult
    /\ AppIdle
    /\ \/ StoreIdle
       \/ \E d \in {1, 2}, raw \in CompareInputs :
              /\ snapshots = {create_wip_snapshot(1, CreateRequest(1, d, raw), None)}
              /\ next_id = 2
              /\ requests = 1
              /\ last = [op |-> "create", status |-> 201, id |-> 1,
                         request |-> CreateRequest(1, d, raw)]
       \/ \E raw1, raw2 \in CompareInputs :
              LET first == create_wip_snapshot(1, CreateRequest(1, 1, raw1), None)
              IN  /\ snapshots =
                         {first, create_wip_snapshot(2, CreateRequest(1, 2, raw2), first)}
                  /\ next_id = 3
                  /\ requests = 2
                  /\ last = [op |-> "create", status |-> 201, id |-> 2,
                             request |-> CreateRequest(1, 2, raw2)]

NextCompare ==
    \E project_id \in ProjectIds, current_date \in Dates, previous_date \in {0} \cup Dates :
        Compare(project_id, current_date, previous_date)

SpecCompare == InitCompare /\ [][NextCompare]_vars

----------------------------------------------------------------------------
(* GET /wip/latest                                                          *)

(* The query with func.min in the place of func.max.                        *)
latest_wip_snapshots_Oldest(rows, project_rows) ==
    {r \in rows :
        /\ \E project \in project_rows : IntVal(project.id) = r["project_id"]
        /\ \A q \in rows :
               q["project_id"] = r["project_id"] =>
                   r["report_date"].v <= q["report_date"].v}

(* The rows of the query: the snapshots joined to their project whose       *)
(* report date is the greatest of their project's.                          *)
latest_wip_snapshots(rows, project_rows) ==
    {r \in rows :
        /\ \E project \in project_rows : IntVal(project.id) = r["project_id"]
        /\ \A q \in rows :
               q["project_id"] = r["project_id"] =>
                   q["report_date"].v <= r["report_date"].v}

(* The orders .order_by(WIPSnapshot.job_number) may return the rows in.     *)
OrderedByJobNumber(rows) ==
    {seq \in [1..Cardinality(rows) -> rows] :
        \A i, j \in 1..Cardinality(rows) :
            i < j => /\ seq[i] # seq[j]
                     /\ seq[i]["job_number"].v <= seq[j]["job_number"].v}

Latest ==
    /\ requests < MaxRequests
    /\ requests' = requests + 1
    /\ \E seq \in OrderedByJobNumber(latest_wip_snapshots(snapshots, projects)) :
           latest' = [called |-> TRUE, rows |-> seq]
    /\ last' = [op |-> "latest", status |-> 200, id |-> 0, request |-> NoResult]
    /\ UNCHANGED <<snapshots, next_id, comparison>>
    /\ UNCHANGED <<projects, next_project_id, explanations, next_explanation_id, pending>>
    /\ UNCHANGED <<calc_vars, call_vars, detect_vars>>

NextLatest == NextStore \/ Latest

SpecLatest == InitStore /\ [][NextLatest]_vars

----------------------------------------------------------------------------
(* The endpoints of api/endpoints/projects.py beside the snapshot requests  *)

(* The delete removing the project whether or not it has snapshots.         *)
delete_project_Hard(project_rows, rows, project_id) ==
    {project \in project_rows : project.id # project_id}

(* The projects table after delete_project found the project: a soft        *)
(* delete when the project has snapshots, a hard delete otherwise.          *)
delete_project(project_rows, rows, project_id) ==
    LET wip_count == Cardinality({r \in rows : r["project_id"] = IntVal(project_id)})
    IN  IF wip_count > 0
        THEN {IF project.id = project_id
              THEN [project EXCEPT !.is_active = FALSE] ELSE project :
                  project \in project_rows}
        ELSE {project \in project_rows : project.id # project_id}

(* POST /projects/                                                          *)
CreateProject(job_number) ==
    /\ requests < MaxRequests
    /\ requests' = requests + 1
    /\ IF \E project \in projects : project.job_number = job_number
       THEN /\ last' = Rejected("create_project", 400)
            /\ UNCHANGED <<projects, next_project_id>>
       ELSE /\ projects' = projects \cup
                    {[id |-> next_project_id, job_number |-> job_number, is_active |-> TRUE]}
            /\ next_project_id' = next_project_id + 1
            /\ last' = [op |-> "create_project", status |-> 201,
                        id |-> next_project_id, request |-> NoResult]
    /\ UNCHANGED <<snapshots, next_id, comparison>>
    /\ UNCHANGED <<explanations, next_explanation_id, pending, latest>>
    /\ UNCHANGED <<calc_vars, call_vars, detect_vars>>

(* PUT /projects/{project_id} setting is_active.                            *)
UpdateProject(project_id, is_active) ==
    /\ requests < MaxRequests
    /\ requests' = requests + 1
    /\ IF ~\E project \in projects : project.id = project_id
       THEN /\ last' = Rejected("update_project", 404)
            /\ UNCHANGED projects
       ELSE /\ projects' = {IF project.id = project_id
                            THEN [project EXCEPT !.is_active = is_active] ELSE project :
                                project \in projects}
            /\ last' = [op |-> "update_project", status |-> 200,
                        id |-> project_id, request |-> NoResult]
    /\ UNCHANGED <<snapshots, next_id, comparison, next_project_id>>
    /\ UNCHANGED <<explanations, next_explanation_id, pending, latest>>
    /\ UNCHANGED <<calc_vars, call_vars, detect_vars>>

(* DELETE /projects/{project_id}                                            *)
DeleteProject(project_id) ==
    /\ requests < MaxRequests
    /\ requests' = requests + 1
    /\ IF ~\E project \in projects : project.id = project_id
       THEN /\ last' = Rejected("delete_project", 404)
            /\ UNCHANGED projects
       ELSE /\ projects' = delete_project(projects, snapshots, project_id)
            /\ last' = [op |-> "delete_project", status |-> 204,
                        id |-> project_id, request |-> NoResult]
    /\ UNCHANGED <<snapshots, next_id, comparison, next_project_id>>
    /\ UNCHANGED <<explanations, next_explanation_id, pending, latest>>
    /\ UNCHANGED <<calc_vars, call_vars, detect_vars>>

(* One create request per project id, all for the same period.              *)
ProjectCreateRequests ==
    {CreateRequest(p, 1, RawInput(Dec(1), None, Dec(1), Dec(1), None)) : p \in ProjectIds}

NextProjects ==
    \/ \E job_number \in ProjectIds : CreateProject(job_number)
    \/ \E project_id \in ProjectIds, is_active \in BOOLEAN :
           UpdateProject(project_id, is_active)
    \/ \E project_id \in ProjectIds : DeleteProject(project_id)
    \/ \E wip_data \in ProjectCreateRequests : Create(wip_data)
    \/ \E wip_id \in 1..MaxRequests : DeleteSnapshot(wip_id)

SpecProjects == InitStore /\ [][NextProjects]_vars

----------------------------------------------------------------------------
(* The endpoints of api/endpoints/explanations.py                           *)

FieldNames == {"us_gaap_percent_completion", "current_month_cost_to_date"}

(* POST /explanations/wip/{wip_snapshot_id}                                 *)
CreateExplanation(wip_snapshot_id, field_name) ==
    /\ requests < MaxRequests
    /\ requests' = requests + 1
    /\ IF ~\E r \in snapshots : r["id"] = IntVal(wip_snapshot_id)
       THEN /\ last' = Rejected("create_explanation", 404)
            /\ UNCHANGED <<explanations, next_explanation_id>>
       ELSE IF \E e \in explanations :
                   e.wip_snapshot_id = wip_snapshot_id /\ e.field_name = field_name
       THEN /\ last' = Rejected("create_explanation", 400)
            /\ UNCHANGED <<explanations, next_explanation_id>>
       ELSE /\ explanations' = explanations \cup
                    {[id |-> next_explanation_id, wip_snapshot_id |-> wip_snapshot_id,
                      field_name |-> field_name, explanation |-> 1]}
            /\ next_explanation_id' = next_explanation_id + 1
            /\ last' = [op |-> "create_explanation", status |-> 201,
                        id |-> next_explanation_id, request |-> NoResult]
    /\ UNCHANGED <<snapshots, next_id, comparison>>
    /\ UNCHANGED <<projects, next_project_id, pending, latest>>
    /\ UNCHANGED <<calc_vars, call_vars, detect_vars>>

(* PUT /explanations/{explanation_id} : a new text for the explanation.     *)
UpdateExplanation(explanation_id) ==
    /\ requests < MaxRequests
    /\ requests' = requests + 1
    /\ IF ~\E e \in explanations : e.id = explanation_id
       THEN /\ last' = Rejected("update_explanation", 404)
            /\ UNCHANGED explanations
       ELSE /\ explanations' = {IF e.id = explanation_id
                                THEN [e EXCEPT !.explanation = 2] ELSE e :
                                    e \in explanations}
            /\ last' = [op |-> "update_explanation", status |-> 200,
                        id |-> explanation_id, request |-> NoResult]
    /\ UNCHANGED <<snapshots, next_id, comparison, next_explanation_id>>
    /\ UNCHANGED <<projects, next_project_id, pending, latest>>
    /\ UNCHANGED <<calc_vars, call_vars, detect_vars>>

(* DELETE /explanations/{explanation_id}                                    *)
DeleteExplanation(explanation_id) ==
    /\ requests < MaxRequests
    /\ requests' = requests + 1
    /\ IF ~\E e \in explanations : e.id = explanation_id
       THEN /\ last' = Rejected("delete_explanation", 404)
            /\ UNCHANGED explanations
       ELSE /\ explanations' = {e \in explanations : e.id # explanation_id}
            /\ last' = [op |-> "delete_explanation", status |-> 204,
                        id |-> explanation_id, request |-> NoResult]
    /\ UNCHANGED <<snapshots, next_id, comparison, next_explanation_id>>
    /\ UNCHANGED <<projects, next_project_id, pending, latest>>
    /\ UNCHANGED <<calc_vars, call_vars, detect_vars>>

(* The two periods of project 1 the explanations are attached to.           *)
ExplainedCreateRequests ==
    {CreateRequest(1, d, RawInput(o, None, Dec(1), Dec(1), None)) :
        d \in {1, 2}, o \in {Dec(1), Dec(MaxStoreAmt)}}

NextExplain ==
    \/ \E wip_data \in ExplainedCreateRequests : Create(wip_data)
    \/ \E wip_id \in 1..MaxRequests : DeleteSnapshot(wip_id)
    \/ \E wip_id \in 1..MaxRequests, field_name \in FieldNames :
           CreateExplanation(wip_id, field_name)
    \/ \E explanation_id \in 1..MaxRequests : UpdateExplanation(explanation_id)
    \/ \E explanation_id \in 1..MaxRequests : DeleteExplanation(explanation_id)

SpecExplain == InitStore /\ [][NextExplain]_vars

----------------------------------------------------------------------------
(* Create requests served concurrently: the endpoint's checks and the       *)
(* service's commit are separate steps of each client.                      *)

(* The table without its unique constraint: every insert is accepted.       *)
uq_project_report_date_Absent(rows, project_id, report_date) == TRUE

(* UniqueConstraint("project_id", "report_date"): whether the table         *)
(* accepts a new row for the pair.                                          *)
uq_project_report_date(rows, project_id, report_date) ==
    ~\E r \in rows : r["project_id"] = project_id /\ r["report_date"] = report_date

(* Client c's POST /wip/ up to the call of the service: the project and     *)
(* the existence checks of the endpoint.                                    *)
BeginCreate(c, wip_data) ==
    /\ requests < MaxRequests
    /\ requests' = requests + 1
    /\ pending[c] = NoResult
    /\ IF ~\E project \in projects : project.id = wip_data["project_id"].v
       THEN /\ last' = Rejected("create", 404)
            /\ UNCHANGED pending
       ELSE IF \E r \in snapshots : /\ r["project_id"] = wip_data["project_id"]
                                     /\ r["report_date"] = wip_data["report_date"]
       THEN /\ last' = Rejected("create", 400)
            /\ UNCHANGED pending
       ELSE /\ pending' = [pending EXCEPT ![c] = wip_data]
            /\ UNCHANGED last
    /\ UNCHANGED <<snapshots, next_id, comparison>>
    /\ UNCHANGED <<projects, next_project_id, explanations, next_explanation_id, latest>>
    /\ UNCHANGED <<calc_vars, call_vars, detect_vars>>

(* Client c's service call: prior lookup, calculation and commit.  The      *)
(* commit fails on the unique constraint when the pair was stored           *)
(* meanwhile; whether the failed insert used up a key depends on the        *)
(* database.                                                                *)
CommitCreate(c) ==
    /\ pending[c] # NoResult
    /\ pending' = [pending EXCEPT ![c] = NoResult]
    /\ LET wip_data == pending[c]
       IN  \E prior_month \in get_prior_month_data(snapshots, wip_data["project_id"].v,
                                                   wip_data["report_date"].v) :
               LET db_wip == create_wip_snapshot(next_id, wip_data, prior_month)
               IN  IF HasErr(db_wip)
                   THEN /\ last' = Rejected("create", 500)
                        /\ UNCHANGED <<snapshots, next_id>>
                   ELSE IF uq_project_report_date(snapshots, wip_data["project_id"],
                                                  wip_data["report_date"])
                   THEN /\ snapshots' = snapshots \cup {db_wip}
                        /\ next_id' = next_id + 1
                        /\ last' = [op |-> "create", status |-> 201,
                                    id |-> next_id, request |-> wip_data]
                   ELSE /\ last' = Rejected("create", 500)
                        /\ next_id' \in {next_id, next_id + 1}
                        /\ UNCHANGED snapshots
    /\ UNCHANGED <<requests, comparison>>
    /\ UNCHANGED <<projects, next_project_id, explanations, next_explanation_id, latest>>
    /\ UNCHANGED <<calc_vars, call_vars, detect_vars>>

(* Create requests for two periods of project 1 and for a project that      *)
(* does not exist.                                                          *)
RaceCreateRequests ==
    {CreateRequest(p, d, RawInput(o, None, Dec(1), Dec(1), None)) :
        p \in {1, 3}, d \in {1, 2}, o \in {Dec(0), Dec(MaxStoreAmt)}}

NextRace ==
    \/ \E c \in Clients, wip_data \in RaceCreateRequests : BeginCreate(c, wip_data)
    \/ \E c \in Clients : CommitCreate(c)
    \/ \E wip_id \in 1..MaxRequests, update_dict \in UpdateRequests :
           UpdateSnapshot(wip_id, update_dict)
    \/ \E wip_id \in 1..MaxRequests : DeleteSnapshot(wip_id)

SpecRace == InitStore /\ [][NextRace]_vars

----------------------------------------------------------------------------
(* The rows create_wip_snapshot commits for consecutive periods of project  *)
(* 1, one per original contract amount, each with the period before it as   *)
(* its prior month.                                                         *)
RECURSIVE SeededPeriods(_)
SeededPeriods(amounts) ==
    IF amounts = << >> THEN {}
    ELSE LET n == Len(amounts)
             rows == SeededPeriods(SubSeq(amounts, 1, n - 1))
             prior_month == IF n = 1 THEN None
                            ELSE CHOOSE r \in rows : r["id"] = IntVal(n - 1)
         IN  rows \cup {create_wip_snapshot(n, CreateRequest(1, n,
                            RawInput(amounts[n], None, Dec(1), Dec(1), None)), prior_month)}

(* The store requests made on a project that already has two periods        *)

(* Project 1 with its snapshots of dates 1 and 2 created in that order;     *)
(* requests counts the requests made from here on.                          *)
InitPeriods ==
    /\ input_data = NoResult
    /\ result = NoResult
    /\ pc = "idle"
    /\ CallsIdle
    /\ DetectIdle
    /\ AppIdle
    /\ comparison = NoResult
    /\ requests = 0
    /\ \E o1, o2 \in {Dec(0), Dec(MaxStoreAmt)} :
           /\ snapshots = SeededPeriods(<<o1, o2>>)
           /\ next_id = 3
           /\ last = [op |-> "create", status |-> 201, id |-> 2,
                      request |-> CreateRequest(1, 2,
                                      RawInput(o2, None, Dec(1), Dec(1), None))]

(* The update and delete requests on the stored periods.                    *)
NextPeriods ==
    \/ \E wip_id \in 1..MaxRequests, update_dict \in UpdateRequests :
           UpdateSnapshot(wip_id, update_dict)
    \/ \E wip_id \in 1..MaxRequests : DeleteSnapshot(wip_id)

SpecPeriods == InitPeriods /\ [][NextPeriods]_vars

----------------------------------------------------------------------------
(* Claims about repeated evaluation, the comparison and the store          *)

(* C11: calculate_all_fields is a function of its argument alone: however   *)
(* the invocations of the callers interleave and whatever ran before,       *)
(* every invocation that has finished holds the mapping the cascade gives   *)
(* for its own argument, so invocations with equal arguments return equal   *)
(* mappings.                                                                *)
C11_FunctionOfArguments ==
    /\ \A h \in history : h[2] = calculate_all_fields(h[1])
    /\ \A i \in Callers :
           calls[i].step = 6 => calls[i].result = calculate_all_fields(calls[i].input)
    /\ \A g, h \in history : g[1] = h[1] => g[2] = h[2]

(* An invocation has returned, a second one with the same argument has      *)
(* just finished with the same mapping, and the other caller is midway      *)
(* through an invocation with a different argument.                         *)
C11_Witness ==
    /\ calls[1].step = 6
    /\ <<calls[1].input, calls[1].result>> \in history
    /\ calls[2].step = 4
    /\ calls[2].input # calls[1].input
    /\ Cardinality(history) >= 2

(* The tracked fields an evaluation flagged.                                *)
Flagged(changes) ==
    {f \in key_fields : ChangedKey[f] \in DOMAIN changes /\ changes[ChangedKey[f]]}

BothSnapshots == current # None /\ prior # None

(* The change of field f is defined: both values present, prior not zero.   *)
HasChangePercent(f) ==
    /\ BothSnapshots
    /\ current[f] # None
    /\ prior[f] # None
    /\ prior[f].v # 0

(* C13: a tracked field is flagged if and only if both values are present   *)
(* (a current value of zero counts as present), the prior value is not      *)
(* zero and the change percent is above the threshold.                      *)
C13_FlaggedIff ==
    \A e \in detected : \A f \in key_fields :
        BothSnapshots =>
            (f \in Flagged(e[2]) <=>
                /\ HasChangePercent(f)
                /\ Abs(current[f].v - prior[f].v) * 100 > e[1] * Abs(prior[f].v))

(* C14: a change percent equal to the threshold is not flagged, and any     *)
(* change percent strictly above the threshold is flagged.                  *)
C14_StrictThreshold ==
    \A e \in detected : \A f \in key_fields :
        HasChangePercent(f) =>
            LET change == Abs(current[f].v - prior[f].v) * 100
                limit == e[1] * Abs(prior[f].v)
            IN  /\ change = limit => f \notin Flagged(e[2])
                /\ change > limit => f \in Flagged(e[2])

(* C15: has_significant_changes is true exactly when at least one tracked   *)
(* field is flagged; it is false when no field is comparable and when       *)
(* either snapshot is missing.                                              *)
C15_HasSignificantChanges ==
    \A e \in detected :
        /\ e[2]["has_significant_changes"] <=> Flagged(e[2]) # {}
        /\ DOMAIN e[2] = {"has_significant_changes"} => ~e[2]["has_significant_changes"]
        /\ ~BothSnapshots => e[2] = [has_significant_changes |-> FALSE]

(* An evaluation where one field is flagged and another compared but not.   *)
C15_Witness ==
    \E e \in detected :
        /\ e[2]["has_significant_changes"]
        /\ Flagged(e[2]) = {"current_month_estimated_final_cost"}
        /\ "current_month_total_contract_amount_changed" \in DOMAIN e[2]

(* C16: for the same two snapshots and thresholds t1 <= t2, the fields      *)
(* flagged at t2 are among those flagged at t1, and                         *)
(* has_significant_changes at t2 implies it at t1.                          *)
C16_ThresholdMonotone ==
    \A e1, e2 \in detected :
        e1[1] <= e2[1] =>
            /\ Flagged(e2[2]) \subseteq Flagged(e1[2])
            /\ e2[2]["has_significant_changes"] => e1[2]["has_significant_changes"]

(* The same snapshots evaluated at two thresholds, the larger one flagging  *)
(* some but not all of the fields the smaller one flags.                    *)
C16_Witness ==
    \E e1, e2 \in detected :
        /\ e1[1] < e2[1]
        /\ Flagged(e2[2]) # {}
        /\ Flagged(e2[2]) # Flagged(e1[2])

(* The row stored under key id.                                             *)
RowOf(rows, id) == CHOOSE r \in rows : r["id"] = IntVal(id)

Served == last.status \in {200, 201}

(* The rows of project p dated before d with no row of p between them and d.*)
LatestBefore(rows, p, d) ==
    {r \in rows :
        /\ r["project_id"].v = p
        /\ r["report_date"].v < d
        /\ ~\E q \in rows : /\ q["project_id"].v = p
                            /\ r["report_date"].v < q["report_date"].v
                            /\ q["report_date"].v < d}

(* The argument of calculate_all_fields the claim names for a row: the raw  *)
(* inputs given, with the tracked values of the row's prior snapshot.       *)
FullInputs(raw, rows, p, d) ==
    IF LatestBefore(rows, p, d) = {} THEN raw
    ELSE LET pm == CHOOSE r \in LatestBefore(rows, p, d) : TRUE
         IN  Update(raw,
                 [prior_month_total_contract_amount |->
                      pm["current_month_total_contract_amount"],
                  prior_month_estimated_final_cost |->
                      pm["current_month_estimated_final_cost"],
                  prior_month_estimated_job_margin_at_completion |->
                      pm["current_month_estimated_job_margin_at_completion"]])

DerivedAsCalculated(row, raw, rows) ==
    LET calculated == calculate_all_fields(
                          FullInputs(raw, rows, row["project_id"].v, row["report_date"].v))
    IN  \A k \in DerivedKeys : row[k] = calculated[k]

(* C17: after a create and after every update, the derived fields stored   *)
(* on the record are those calculate_all_fields returns for the record's    *)
(* merged inputs (stored inputs overridden by the fields the update sets,   *)
(* a field set to null included) and the prior snapshot looked up at that   *)
(* moment.                                                                  *)
C17_DerivedRecalculated ==
    /\ [](Served =>
            LET row == RowOf(snapshots, last.id)
            IN  DerivedAsCalculated(row, [k \in RawKeys |-> row[k]], snapshots))
    /\ [][(last'.op = "update" /\ last'.status = 200) =>
            LET old == RowOf(snapshots, last'.id)
                new == RowOf(snapshots', last'.id)
                merged == [k \in RawKeys |->
                              IF k \in DOMAIN last'.request
                              THEN last'.request[k] ELSE old[k]]
            IN  /\ \A k \in RawKeys : new[k] = merged[k]
                /\ DerivedAsCalculated(new, merged, snapshots)]_vars

(* An update set the original contract amount of a record with a prior      *)
(* snapshot to null: total and variance are absent again.                   *)
C17_Witness ==
    /\ last.op = "update"
    /\ last.status = 200
    /\ last.request = [current_month_original_contract_amount |-> None]
    /\ LET row == RowOf(snapshots, last.id)
       IN  /\ row["prior_month_total_contract_amount"] # None
           /\ row["current_month_total_contract_amount"] = None
           /\ row["current_vs_prior_contract_variance"] = None
           /\ row["current_month_estimated_final_cost"] = Dec(2)

(* C18: get_prior_month_data(project_id, d) returns the snapshot of that    *)
(* project with the greatest report_date strictly before d, and nothing     *)
(* when there is none, whatever order the snapshots were created in; the    *)
(* prior values a served create or update stored are those of that          *)
(* snapshot.                                                                *)
C18_PriorLookup ==
    /\ \A p \in ProjectIds, d \in 1..4 :
           \A r \in get_prior_month_data(snapshots, p, d) :
               IF r = None
               THEN ~\E q \in snapshots :
                        q["project_id"].v = p /\ q["report_date"].v < d
               ELSE r \in LatestBefore(snapshots, p, d)
    /\ Served =>
           LET row == RowOf(snapshots, last.id)
           IN  \A pm \in LatestBefore(snapshots, row["project_id"].v, row["report_date"].v) :
                   row["prior_month_total_contract_amount"] =
                       pm["current_month_total_contract_amount"]

(* Project 1 has the snapshot of date 2 created before that of date 1: the  *)
(* lookup before date 3 returns the former, the lookup for project 2 finds  *)
(* nothing.                                                                 *)
C18_Witness ==
    /\ \E r, q \in snapshots :
           /\ r["project_id"] = IntVal(1) /\ r["report_date"] = DateVal(2) /\ r["id"] = IntVal(1)
           /\ q["project_id"] = IntVal(1) /\ q["report_date"] = DateVal(1) /\ q["id"] = IntVal(2)
           /\ get_prior_month_data(snapshots, 1, 3) = {r}
           /\ get_prior_month_data(snapshots, 1, 2) = {q}
    /\ get_prior_month_data(snapshots, 2, 3) = {None}

(* The change amount the compare endpoint reports for each tracked field.   *)
ChangeKey ==
    [current_month_total_contract_amount |-> "contract_amount_change",
     current_month_estimated_final_cost |-> "estimated_final_cost_change",
     current_month_estimated_job_margin_at_completion |-> "job_margin_change",
     us_gaap_percent_completion |-> "percent_completion_change"]

Compared == comparison # NoResult /\ comparison["status"] = 200

(* C20: in the response of compare_wip_snapshots the change amount of each  *)
(* tracked field is current value - previous value whenever both snapshots  *)
(* exist and both values are present, a value of zero included, and is      *)
(* absent only when a snapshot or one of the two values is absent.          *)
C20_ChangeAmounts ==
    Compared =>
        \A f \in key_fields :
            LET cur == comparison["current_month"]
                prev == comparison["previous_month"]
            IN  IF cur # None /\ prev # None /\ cur[f] # None /\ prev[f] # None
                THEN comparison[ChangeKey[f]] = Dec(cur[f].v - prev[f].v)
                ELSE comparison[ChangeKey[f]] = None

(* The percentage fields of the result, persisted in Numeric(5,2) columns.  *)
PercentageKeys ==
    {"us_gaap_percent_completion",
     "estimated_job_margin_to_date_percent_sales",
     "current_month_estimated_job_margin_percent_sales"}

(* C27: for non-negative raw inputs that fit the Numeric(15,2) columns,     *)
(* every percentage field of the result has absolute value below 1000 and   *)
(* so fits its Numeric(5,2) column.  The code bounds neither margin         *)
(* percentage: a cost many times the contract gives -1000.00 and beyond.    *)
C27_PercentagesFit ==
    (Returned /\ NonNegativeInputs) =>
        \A k \in PercentageKeys :
            result[k] # None => Abs(result[k].v) < 100000

(* C28: a costs-in-excess or billings-in-excess value present in the        *)
(* result is strictly greater than zero.                                    *)
C28_ExcessPositive ==
    Returned =>
        /\ out_costs_in_excess # None => out_costs_in_excess.v > 0
        /\ out_billings_in_excess # None => out_billings_in_excess.v > 0

(* Cost exceeds revenue earned by one cent and is reported; billings equal  *)
(* revenue earned and are left absent rather than reported as zero.         *)
C28_Witness ==
    /\ Returned
    /\ out_costs_in_excess = Dec(1)
    /\ in_billed # None
    /\ in_billed = out_revenue
    /\ out_billings_in_excess = None

(* C24: has_significant_changes of the response of compare_wip_snapshots    *)
(* is the value _detect_significant_changes computed for the same current   *)
(* and previous snapshots, true whenever a tracked field changed by more    *)
(* than the threshold.  The endpoint reads the key from the comparison      *)
(* mapping, which holds the detection under "has_changes", and so always    *)
(* reports the default.                                                     *)
C24_ResponseHasSignificantChanges ==
    Compared =>
        comparison["has_significant_changes"] =
            _detect_significant_changes(comparison["current_month"],
                                        comparison["previous_month"],
                                        5)["has_significant_changes"]

(* The three triples <<current value, stored prior value, variance>>.       *)
VarianceTriples ==
    {<<"current_month_total_contract_amount",
       "prior_month_total_contract_amount",
       "current_vs_prior_contract_variance">>,
     <<"current_month_estimated_final_cost",
       "prior_month_estimated_final_cost",
       "current_vs_prior_estimated_final_cost_variance">>,
     <<"current_month_estimated_job_margin_at_completion",
       "prior_month_estimated_job_margin_at_completion",
       "current_vs_prior_estimated_job_margin">>}

(* a - b where both are present, absent otherwise.                          *)
DifferenceOf(a, b) == IF a # None /\ b # None THEN Dec(a.v - b.v) ELSE None

(* C22: after any sequence of create, update and delete operations every    *)
(* stored snapshot's three variance fields equal its own current value      *)
(* minus that of the chronologically most recent stored snapshot of the     *)
(* same project with an earlier report date, and are absent when there is   *)
(* none.  The code computes the variances of a record only when that        *)
(* record is created or updated, so they go stale when an earlier period    *)
(* is created, updated or deleted afterwards.                               *)
C22_VariancesFollowPrior ==
    \A r \in snapshots : \A t \in VarianceTriples :
        LET before == LatestBefore(snapshots, r["project_id"].v, r["report_date"].v)
        IN  IF before = {}
            THEN r[t[3]] = None
            ELSE \A pm \in before : r[t[3]] = DifferenceOf(r[t[1]], pm[t[1]])

(* C23: every stored snapshot is internally consistent after any sequence   *)
(* of create, update and delete operations: each variance is present        *)
(* exactly when the record's current value and its own stored prior value   *)
(* are both present, and is then their difference.  An update made after    *)
(* the prior period was deleted recomputes the variance as absent and       *)
(* leaves the stored prior value in place.                                  *)
C23_InternallyConsistent ==
    \A r \in snapshots : \A t \in VarianceTriples :
        r[t[3]] = DifferenceOf(r[t[1]], r[t[2]])

(* C25: an update changes only what it names: the raw inputs the request    *)
(* does not set keep their stored values and the record's id, project_id,   *)
(* report_date and job_number never change; a create adds one snapshot, a   *)
(* delete removes one, a rejected request changes nothing, and no request   *)
(* modifies any other stored snapshot.                                      *)
C25_UpdateFrame ==
    [][requests' # requests =>
        CASE last'.op = "update" /\ last'.status = 200 ->
               LET old == RowOf(snapshots, last'.id)
                   new == RowOf(snapshots', last'.id)
               IN  /\ \A k \in RawKeys \ DOMAIN last'.request : new[k] = old[k]
                   /\ \A k \in {"id", "project_id", "report_date", "job_number"} :
                          new[k] = old[k]
                   /\ snapshots' \ {new} = snapshots \ {old}
          [] last'.op = "create" /\ last'.status = 201 ->
               /\ snapshots \subseteq snapshots'
               /\ Cardinality(snapshots' \ snapshots) = 1
          [] last'.op = "delete" /\ last'.status = 204 ->
               /\ snapshots' \subseteq snapshots
               /\ snapshots \ snapshots' = {RowOf(snapshots, last'.id)}
          [] OTHER -> snapshots' = snapshots]_vars

(* An update naming cost to date and change orders was served on a store    *)
(* holding a snapshot of each project: the original contract amount and     *)
(* cost to complete of the record are the ones it was created with.         *)
C25_Witness ==
    /\ last.op = "update"
    /\ last.status = 200
    /\ DOMAIN last.request =
           {"current_month_cost_to_date", "current_month_change_order_amount"}
    /\ Cardinality({r["project_id"] : r \in snapshots}) = 2
    /\ LET row == RowOf(snapshots, last.id)
       IN  /\ row["current_month_original_contract_amount"] = Dec(MaxStoreAmt)
           /\ row["current_month_estimated_cost_to_complete"] = Dec(1)
           /\ row["current_month_cost_to_date"] = Dec(0)

(* C30: the response of get_latest_wip_snapshots holds, for every project   *)
(* with at least one stored snapshot, exactly one snapshot, the one with    *)
(* the greatest report_date of that project, and nothing for a project      *)
(* without snapshots, after any sequence of creates, updates and deletes.   *)
C30_LatestPerProject ==
    last.op = "latest" =>
        /\ latest.called
        /\ \A p \in ProjectIds :
               LET mine == {r \in snapshots : r["project_id"] = IntVal(p)}
                   shown == {i \in DOMAIN latest.rows :
                                latest.rows[i]["project_id"] = IntVal(p)}
               IN  IF mine = {}
                   THEN shown = {}
                   ELSE /\ Cardinality(shown) = 1
                        /\ \A i \in shown :
                               /\ latest.rows[i] \in mine
                               /\ \A q \in mine :
                                      q["report_date"].v <= latest.rows[i]["report_date"].v

(* Project 1 has two snapshots, the later-dated one created first; the      *)
(* response holds that one alone.                                           *)
C30_Witness ==
    /\ last.op = "latest"
    /\ Cardinality({r \in snapshots : r["project_id"] = IntVal(1)}) = 2
    /\ DOMAIN latest.rows = {1}
    /\ latest.rows[1]["id"] = IntVal(1)
    /\ \E q \in snapshots : q["report_date"].v < latest.rows[1]["report_date"].v

C29_Explanations ==
    /\ [](/\ \A e, f \in explanations :
                (e.wip_snapshot_id = f.wip_snapshot_id /\ e.field_name = f.field_name)
                    => e = f
          /\ \A e \in explanations :
                \E r \in snapshots : r["id"] = IntVal(e.wip_snapshot_id))
    /\ [][requests' # requests =>
            /\ (last'.op = "create_explanation" /\ last'.status \in {400, 404}) =>
                   explanations' = explanations
            /\ (last'.op = "delete" /\ last'.status = 204) =>
                   /\ explanations' \subseteq explanations
                   /\ \A e \in explanations :
                          e \in explanations' <=> e.wip_snapshot_id # last'.id]_vars

(* A snapshot that had an explanation was deleted, and the explanation      *)
(* with it.                                                                 *)
C29_Witness ==
    /\ last.op = "delete"
    /\ last.status = 204
    /\ next_explanation_id = 2
    /\ explanations = {}
    /\ snapshots = {}

(* The stored snapshots of the pair a create request names.                 *)
StoredFor(rows, wip_data) ==
    {r \in rows : /\ r["project_id"] = wip_data["project_id"]
                  /\ r["report_date"] = wip_data["report_date"]}

(* C21: at most one snapshot is ever stored per (project_id, report_date),  *)
(* whatever the interleaving of create, update and delete requests, two     *)
(* creates for the same pair that both passed the existence check           *)
(* included; a create for an existing pair or for a project that does not   *)
(* exist is rejected and leaves the stored snapshots unchanged.             *)
C21_UniquePerProjectAndDate ==
    /\ [](\A r, q \in snapshots :
              (r["project_id"] = q["project_id"] /\ r["report_date"] = q["report_date"])
                  => r = q)
    /\ [][/\ (last' # last /\ last'.op = "create" /\ last'.status # 201) =>
                 snapshots' = snapshots
          /\ \A c \in Clients :
                 /\ (pending[c] = NoResult /\ pending'[c] # NoResult) =>
                        /\ \E project \in projects :
                               project.id = pending'[c]["project_id"].v
                        /\ StoredFor(snapshots, pending'[c]) = {}
                 /\ (pending[c] # NoResult /\ pending'[c] = NoResult) =>
                        IF StoredFor(snapshots, pending[c]) # {}
                        THEN snapshots' = snapshots /\ last'.status = 500
                        ELSE /\ snapshots \subseteq snapshots'
                             /\ Cardinality(StoredFor(snapshots', pending[c])) = 1]_vars

(* Both clients passed the existence check for the same project and date;   *)
(* one committed, the other's commit was refused, and one snapshot is       *)
(* stored.                                                                  *)
C21_Witness ==
    /\ last.op = "create"
    /\ last.status = 500
    /\ requests = 2
    /\ \A c \in Clients : pending[c] = NoResult
    /\ Cardinality(snapshots) = 1

====
